---- MODULE Spec2Model ----
(***************************************************************************)
(* Model of src/clipboard_history.py (class ClipboardHistory): the bounded *)
(* history deque, the content-addressed image files, the durable JSON      *)
(* file, and the handlers that mutate them.                                *)
(*                                                                         *)
(* Strings are sequences of one-character strings, so that strip(),        *)
(* lower(), slicing and substring search are computed, not assumed.        *)
(* Entries are records whose DOMAIN is the key set of the Python dict.     *)
(***************************************************************************)
EXTENDS Integers, Sequences, FiniteSets, TLC

\* ------------------------------------------------------------------ bounds

\* max_history given to the constructor (the deque's maxlen), kept small.
MaxHistory == 3

\* The clock stops at MaxClock tenths of a second.
MaxClock == 6

\* Appends for one clipboard content are counted up to MaxChangeAppends.
MaxChangeAppends == 3

\* ------------------------------------------------------- program constants

\* text[:100] + ('...' if len(text) > 100 else '')
PreviewLen == 100

\* Times are counted in tenths of a second.
\* (time.time() - self.window_open_time) < 0.5
GuardWindow == 5

\* clear_window_flag: time.sleep(0.3)
FlagDelay == 3

\* monitor_clipboard: time.sleep(0.3) after each look at the clipboard
PollInterval == 3

\* ----------------------------------------------------------------- strings

Str_A == <<"A">>
Str_B == <<"b">>
Str_C == <<"c">>
Str_Blank == <<" ">>
Str_Padded == <<" ", "A", " ">>
Str_Empty == <<>>

\* The clipboard texts add_to_history is called with.
Texts == {Str_A, Str_B, Str_Blank, Str_Empty}

\* The clipboard image payloads (bytes) add_to_history is called with.
Images == {"png1"}

\* The texts and images of the runs in which file operations may fail.
FaultTexts == {Str_A, Str_Blank}

FaultImages == {"png1"}

\* The search queries typed into the window.
Queries == {Str_Empty}

\* The placeholder preview of an image entry, '[' + the capitalised Russian word
\* for "image" + ']'; a Cyrillic letter is written as the token "cyr_<name>".
ImagePlaceholder ==
  <<"[", "cyr_I", "cyr_z", "cyr_o", "cyr_b", "cyr_r", "cyr_a", "cyr_zh", "cyr_e",
    "cyr_n", "cyr_i", "cyr_e", "]">>

\* The lower-case Russian word for "image" that a query is searched for.
ImageKeyword ==
  <<"cyr_i", "cyr_z", "cyr_o", "cyr_b", "cyr_r", "cyr_a", "cyr_zh", "cyr_e",
    "cyr_n", "cyr_i", "cyr_e">>

Whitespace == {" ", "\t", "\n"}

RECURSIVE LStrip(_)
LStrip(s) == IF s # <<>> /\ Head(s) \in Whitespace THEN LStrip(Tail(s)) ELSE s

RECURSIVE RStrip(_)
RStrip(s) ==
  IF s # <<>> /\ s[Len(s)] \in Whitespace THEN RStrip(SubSeq(s, 1, Len(s) - 1)) ELSE s

\* str.strip()
Strip(s) == RStrip(LStrip(s))

LowerChar(c) ==
  CASE c = "A" -> "a"
    [] c = "B" -> "b"
    [] c = "cyr_I" -> "cyr_i"
    [] OTHER -> c

\* str.lower()
Lower(s) == [i \in 1..Len(s) |-> LowerChar(s[i])]

\* sub in s
Contains(sub, s) ==
  \E i \in 0..(Len(s) - Len(sub)) : SubSeq(s, i + 1, i + Len(sub)) = sub

\* text[:100] + ('...' if len(text) > 100 else '')
Preview(text) ==
  IF Len(text) > PreviewLen
    THEN SubSeq(text, 1, PreviewLen) \o <<".", ".", ".">>
    ELSE text

\* hashlib.md5(image_data).hexdigest()
MD5(data) ==
  CASE data = "png1" -> "d41d"
    [] data = "png2" -> "9e10"

\* os.path.join(images_dir, f"{image_hash}.png")
ImagePath(hash) == <<hash, ".png">>

\* os.path.join(images_dir, f"{image_hash}_preview.png")
PreviewPath(hash) == <<hash, "_preview.png">>

\* ----------------------------------------------------------------- entries

\* dict.get(key) of a key that holds a word (the 'type' and 'image_hash' keys).
Get(e, k) == IF k \in DOMAIN e THEN e[k] ELSE "None"

\* dict.get(key, '') of a key that holds a string.
GetStr(e, k) == IF k \in DOMAIN e THEN e[k] ELSE <<>>

\* The dict add_to_history builds for a text.
TextEntry(text, ts) ==
  [type |-> "text", text |-> text, timestamp |-> ts, preview |-> Preview(text)]

\* The dict add_to_history builds for a stored image.
ImageEntry(info, ts) ==
  [type |-> "image", image_path |-> info.image_path,
   preview_path |-> info.preview_path, image_hash |-> info.image_hash,
   timestamp |-> ts, preview |-> ImagePlaceholder]

\* What json.load gives for a list element that is not an object: a number,
\* or a string with its characters.
JsonNumber == [json |-> "number"]

JsonString(s) == [json |-> "string", value |-> s]

\* isinstance(entry, dict)
IsObject(e) == "json" \notin DOMAIN e

\* A record written by an older version: no 'type' key.
LegacyRecord(text, ts) == [text |-> text, timestamp |-> ts, preview |-> Preview(text)]

Range(s) == {s[i] : i \in 1..Len(s)}

\* ------------------------------------------------------------------- deque

\* A deque without maxlen: nothing is ever dropped.
DequeAppend_Unbounded(h, e) == Append(h, e)

\* A deque that makes room at the wrong end: the newest item is dropped.
DequeAppend_DropsNewest(h, e) ==
  IF Len(h) >= MaxHistory /\ Len(h) > 0
    THEN Append(SubSeq(h, 1, Len(h) - 1), e)
    ELSE Append(h, e)

\* deque.append on a deque(maxlen=max_history): the head is dropped on overflow.
DequeAppend(h, e) ==
  LET a == Append(h, e) IN IF Len(a) > MaxHistory THEN Tail(a) ELSE a

\* deque(iterable, maxlen=max_history): the last max_history items are kept.
DequeFrom(list) ==
  IF Len(list) > MaxHistory
    THEN SubSeq(list, Len(list) - MaxHistory + 1, Len(list))
    ELSE list

\* deque.remove(e): the first item equal to e is removed (e is in h).
RECURSIVE DequeRemove(_, _)
DequeRemove(h, e) ==
  IF h = <<>> THEN <<>>
  ELSE IF Head(h) = e THEN Tail(h)
  ELSE <<Head(h)>> \o DequeRemove(Tail(h), e)

\* ------------------------------------------------------------ durable file

FileAbsent == [kind |-> "absent"]

\* A file that json.load rejects (truncated or not JSON at all).
FileCorrupt == [kind |-> "corrupt"]

\* A file that holds JSON whose top level is not an object.
FileNotDict == [kind |-> "notdict"]

\* A file that open(config_file, 'r') refuses.
FileUnreadable == [kind |-> "unreadable"]

\* A file that holds a JSON object whose 'history' is null or a number.
FileNoList == [kind |-> "nolist"]

\* What json.dump writes in save_history.
SaveDoc(h, t) == [kind |-> "json", doc |-> [history |-> h, last_update |-> t]]

SaveResults == {"ok", "open_fail", "write_fail"}

\* A save_history that leaves the file as it is.
SaveHistory_Skips(file, h, t, result) == file

\* A save_history that gives up on a file an earlier failed write left behind.
SaveHistory_StuckAfterFailure(file, h, t, result) ==
  IF file.kind = "corrupt" THEN file
  ELSE IF result = "ok" THEN SaveDoc(h, t)
  ELSE IF result = "open_fail" THEN file
  ELSE FileCorrupt

\* save_history: open(config_file, 'w') truncates the file, json.dump fills it;
\* an exception of either is printed and swallowed.
SaveHistory(file, h, t, result) ==
  CASE result = "ok" -> SaveDoc(h, t)
    [] result = "open_fail" -> file
    [] result = "write_fail" -> FileCorrupt

\* A loop that gives every record the type 'text'.
Normalize_ForcesText(list) ==
  [i \in 1..Len(list) |->
     [k \in DOMAIN list[i] \cup {"type"} |->
        IF k = "type" THEN "text" ELSE list[i][k]]]

\* 'type' in entry: a key of a dict, a substring of a string.
HasType(e) ==
  IF IsObject(e) THEN "type" \in DOMAIN e
  ELSE e.json = "string" /\ Contains(<<"t", "y", "p", "e">>, e.value)

\* The body of the loop of load_history raises TypeError: 'in' on a number,
\* or entry['type'] = 'text' on a string.
EntryRaises(e) == ~IsObject(e) /\ ~HasType(e)

\* The loop of load_history: a record without 'type' gets type 'text'.
Normalize(list) ==
  [i \in 1..Len(list) |->
     IF HasType(list[i])
       THEN list[i]
       ELSE [k \in DOMAIN list[i] \cup {"type"} |->
               IF k = "type" THEN "text" ELSE list[i][k]]]

\* data.get('history', []) of a file that holds a JSON object.
HistoryList(file) ==
  IF "history" \in DOMAIN file.doc THEN file.doc.history ELSE <<>>

\* load_history: self.history after the call, h before it.  self.history is
\* assigned after the loop, so an exception anywhere leaves h.
LoadHistory(h, file) ==
  CASE file.kind = "absent" -> h
    [] file.kind = "corrupt" -> h
    [] file.kind = "unreadable" -> h
    [] file.kind = "notdict" -> h
    [] file.kind = "nolist" -> h
    [] file.kind = "json" ->
         IF \E i \in 1..Len(HistoryList(file)) : EntryRaises(HistoryList(file)[i])
           THEN h
           ELSE DequeFrom(Normalize(HistoryList(file)))

\* ------------------------------------------------------------- image files

\* An image check that never finds the last entry to be the same image.
IsDuplicateImage_Never(h, hash) == FALSE

\* The duplicate check of save_image_from_clipboard.
IsDuplicateImage(h, hash) ==
  /\ Len(h) > 0
  /\ Get(h[Len(h)], "type") = "image"
  /\ Get(h[Len(h)], "image_hash") = hash

\* save_image_from_clipboard(image_data) with history h and directory `files`:
\* whether an info dict is returned, whether the blob write raised, the dict,
\* and the directory afterwards.
\* writeOk: open/write of the blob succeeds; thumbOk: the thumbnail is made.
SaveImageFromClipboard(h, files, pil, data, writeOk, thumbOk) ==
  LET hash == MD5(data)
      none == [stored |-> FALSE, writeFailed |-> FALSE,
               info |-> [image_hash |-> hash], files |-> files]
  IN  IF ~pil THEN none
      ELSE IF IsDuplicateImage(h, hash) THEN none
      ELSE IF ~writeOk THEN [none EXCEPT !.writeFailed = TRUE]
      ELSE IF thumbOk
        THEN [stored |-> TRUE, writeFailed |-> FALSE,
              info |-> [image_path |-> ImagePath(hash),
                        preview_path |-> PreviewPath(hash),
                        image_hash |-> hash],
              files |-> files \cup {ImagePath(hash), PreviewPath(hash)}]
        ELSE [stored |-> TRUE, writeFailed |-> FALSE,
              info |-> [image_path |-> ImagePath(hash),
                        preview_path |-> ImagePath(hash),
                        image_hash |-> hash],
              files |-> files \cup {ImagePath(hash)}]

\* The files delete_selected and clear_history call os.remove on for entry e:
\* image_path if it exists, preview_path if it exists and is another path.
RemovalTargets(e, files) ==
  IF Get(e, "type") = "image"
    THEN {p \in {e.image_path, e.preview_path} : p \in files}
    ELSE {}

\* The directory after os.remove of `targets`, of which `failing` raise.
RemoveFiles(files, targets, failing) == files \ (targets \ failing)

\* A duplicate check that never finds a duplicate.
IsDuplicateText_Never(h, text) == FALSE

\* A duplicate check against every entry of the history, not the last alone.
IsDuplicateText_Global(h, text) ==
  \E i \in 1..Len(h) :
    Get(h[i], "type") = "text" /\ "text" \in DOMAIN h[i] /\ h[i].text = text

\* The duplicate check of add_to_history for a text.
IsDuplicateText(h, text) ==
  /\ Len(h) > 0
  /\ Get(h[Len(h)], "type") = "text"
  /\ "text" \in DOMAIN h[Len(h)]
  /\ h[Len(h)].text = text

\* -------------------------------------------------------------------- view

\* selected_index = None
NoIndex == -1

\* A test that compares the query with the text and the preview as typed.
Matches_CaseSensitive(e, filter_text) ==
  \/ Contains(filter_text, GetStr(e, "text"))
  \/ Contains(filter_text, GetStr(e, "preview"))
  \/ (Get(e, "type") = "image" /\ Contains(ImageKeyword, filter_text))

\* The test of the list comprehension in update_history_list.
Matches(e, filter_text) ==
  LET filter_lower == Lower(filter_text)
  IN  \/ Contains(filter_lower, Lower(GetStr(e, "text")))
      \/ Contains(filter_lower, Lower(GetStr(e, "preview")))
      \/ (Get(e, "type") = "image" /\ Contains(ImageKeyword, filter_lower))

\* A list that leaves the images out.
FilterList_SkipsImages(h, filter_text) ==
  SelectSeq(h, LAMBDA e : Get(e, "type") # "image" /\ Matches(e, filter_text))

\* filtered_history as update_history_list computes it.
FilterList(h, filter_text) ==
  IF filter_text = <<>> THEN h ELSE SelectSeq(h, LAMBDA e : Matches(e, filter_text))

\* ------------------------------------------------------------------- state

VARIABLES
  history,            \* self.history, oldest first
  configFile,         \* the content of ~/.clipboard_history.json
  imageFiles,         \* the paths that exist in ~/.clipboard_history_images
  now,                \* datetime.now()
  PIL_AVAILABLE,      \* whether Pillow was imported
  history_window,     \* whether self.history_window is an existing window
  filtered_history,   \* self.filtered_history
  current_filter,     \* self.current_filter
  selected_index,     \* self.selected_index (NoIndex for None)
  lastCall,           \* the handler that ran last, its argument and its outcome
  pc,                 \* per thread, the position in the handler it is running
  loc,                \* per thread, the locals of that handler
  clipboard,          \* the OS clipboard: its text and its image data
  current_clipboard,  \* self.current_clipboard
  current_clipboard_image_hash,  \* self.current_clipboard_image_hash
  monitoring,         \* self.monitoring
  changeAppends,      \* entries appended since the user last set the clipboard
  clip_origin,        \* who put the clipboard's content there, and over what
  window_just_opened, \* self.window_just_opened
  window_open_time,   \* self.window_open_time
  flag_timers,        \* start times of the clear_window_flag threads still asleep
  auto_paste,         \* whether an auto_paste thread has yet to press Ctrl+V
  hotkey_backend,     \* the library register_hotkey registered the hotkey with
  show_requests       \* the show_history_window calls posted to the Tk loop

storeVars == <<history, configFile, imageFiles>>
viewVars == <<history_window, filtered_history, current_filter, selected_index>>
threadVars == <<pc, loc>>
watchVars ==
  <<clipboard, current_clipboard, current_clipboard_image_hash, monitoring,
    changeAppends, clip_origin>>
guardVars == <<window_just_opened, window_open_time, flag_timers>>
hotkeyVars == <<hotkey_backend, show_requests>>
deskVars == <<watchVars, guardVars, auto_paste, hotkeyVars>>
vars ==
  <<history, configFile, imageFiles, now, PIL_AVAILABLE, history_window,
    filtered_history, current_filter, selected_index, lastCall, pc, loc,
    clipboard, current_clipboard, current_clipboard_image_hash, monitoring,
    changeAppends, clip_origin, window_just_opened, window_open_time, flag_timers,
    auto_paste,
    hotkey_backend, show_requests>>

\* The record kept of a completed handler call: which handler, the text or image
\* it was given, whether it changed self.history, the outcome of its
\* save_history call ("none" when it made none), whether every blob write and
\* os.remove it made succeeded, the files it removed, and len(self.history)
\* when it was called.
Call(op, text, data, mutated, save, filesOk, removed) ==
  [op |-> op, text |-> text, data |-> data, mutated |-> mutated, save |-> save,
   filesOk |-> filesOk, removed |-> removed, before |-> Len(history)]

\* The watcher thread (monitor_clipboard) and the Tk main loop.
Threads == {"watcher", "foreground"}

\* No thread is inside a handler.
AllIdle == [t \in Threads |-> "idle"]

\* A handler's locals: which handler, its text argument, the entry it built or
\* picked, the list(self.history) evaluated for json.dump, and
\* len(self.history) when the handler was called.
NoLocals ==
  [op |-> "none", text |-> <<>>, entry |-> <<>>, snapshot |-> <<>>, before |-> 0]

\* Which operations of the environment may fail in a run: writing the durable
\* file (save), storing an image (store: Pillow missing, the blob not written,
\* the thumbnail not made) and os.remove (remove).
NoFaults == [save |-> FALSE, store |-> FALSE, remove |-> FALSE]

SaveFaults == [save |-> TRUE, store |-> FALSE, remove |-> TRUE]

StoreFaults == [save |-> FALSE, store |-> TRUE, remove |-> FALSE]

\* The outcomes of save_history's open and json.dump.
SaveOutcomes(faults) == IF faults.save THEN SaveResults ELSE {"ok"}

\* Whether the blob is written, and whether the thumbnail is made.
WriteOutcomes(faults) == IF faults.store THEN BOOLEAN ELSE {TRUE}

\* PIL_AVAILABLE: the import of Pillow succeeds, or may fail.
PillowOutcomes(faults) == IF faults.store THEN BOOLEAN ELSE {TRUE}

\* The sets of files on which os.remove may raise.
FailingSets(targets, faults) == IF faults.remove THEN SUBSET targets ELSE {{}}

\* ----------------------------------------------------------------- startup

\* The durable files a first start can find: none, one that is not JSON, one
\* that is not an object, one without 'history', a list of records of an older
\* version, and a list longer than max_history.
InitialFiles ==
  { FileAbsent, FileCorrupt, FileNotDict,
    [kind |-> "json", doc |-> [last_update |-> 0]],
    [kind |-> "json", doc |-> [history |-> <<LegacyRecord(Str_A, 0)>>, last_update |-> 0]],
    SaveDoc([i \in 1..(MaxHistory + 1) |->
               TextEntry(IF i % 2 = 1 THEN Str_A ELSE Str_B, 0)], 0) }

\* A clear_history that removes the blob files and leaves the previews.
ClearTargets_BlobOnly(h, files) ==
  {h[i].image_path : i \in {j \in 1..Len(h) : Get(h[j], "type") = "image"}} \cap files

\* The files clear_history removes for the entries of h.
ClearTargets(h, files) == UNION {RemovalTargets(h[i], files) : i \in 1..Len(h)}

\* An __init__ that never clears what it loaded.
StartHistory_KeepsLoaded(file, clear) == LoadHistory(<<>>, file)

\* The entries the loop of clear_history passes before entry.get raises
\* AttributeError on one that is not a dict: all of them if none is.
RECURSIVE ClearedBeforeRaise(_)
ClearedBeforeRaise(h) ==
  IF h = <<>> \/ ~IsObject(Head(h)) THEN <<>>
  ELSE <<Head(h)>> \o ClearedBeforeRaise(Tail(h))

\* __init__ does not return: its clear_history raises on what load_history
\* left in self.history.
StartAborts(file, clear) ==
  clear /\ ClearedBeforeRaise(LoadHistory(<<>>, file)) # LoadHistory(<<>>, file)

\* self.history after __init__: load_history, then clear_history if asked.
StartHistory(file, clear) ==
  IF clear /\ ~StartAborts(file, clear) THEN <<>> ELSE LoadHistory(<<>>, file)

\* The durable file after __init__.
StartFile(file, clear, t, saveResult) ==
  IF clear /\ ~StartAborts(file, clear)
    THEN SaveHistory(file, <<>>, t, saveResult)
    ELSE file

\* The record of __init__; `removed` are the files its clear_history removed.
StartCall(clear, saveResult, filesOk, removed) ==
  [op |-> IF clear THEN "start_clear" ELSE "start_load", text |-> <<>>, data |-> "",
   mutated |-> clear, save |-> IF clear THEN saveResult ELSE "none",
   filesOk |-> filesOk, removed |-> removed, before |-> 0]

\* The record of an __init__ that raised in its clear_history.
AbortCall(filesOk, removed) ==
  [op |-> "start_abort", text |-> <<>>, data |-> "", mutated |-> FALSE,
   save |-> "none", filesOk |-> filesOk, removed |-> removed, before |-> 0]

\* An OS clipboard that offers neither a text nor an image.
EmptyClipboard == [text |-> <<>>, image |-> ""]

\* The state after ClipboardHistory(max_history, clear_on_startup) in a home
\* directory with the durable file `file` and the image files `files`.
StartState(file, files, clear, pil, saveResult) ==
  LET targets == IF clear
                   THEN ClearTargets(ClearedBeforeRaise(LoadHistory(<<>>, file)), files)
                   ELSE {}
  IN
    /\ history = StartHistory(file, clear)
    /\ configFile = StartFile(file, clear, 0, saveResult)
    /\ imageFiles = RemoveFiles(files, targets, {})
    /\ now = 0
    /\ PIL_AVAILABLE = pil
    /\ history_window = FALSE
    /\ filtered_history = <<>>
    /\ current_filter = <<>>
    /\ selected_index = NoIndex
    /\ lastCall = IF StartAborts(file, clear)
                    THEN AbortCall(TRUE, targets)
                    ELSE StartCall(clear, saveResult, TRUE, targets)
    /\ pc = AllIdle
    /\ loc = [t \in Threads |-> NoLocals]
    /\ clipboard = EmptyClipboard
    /\ current_clipboard = <<>>
    /\ current_clipboard_image_hash = "None"
    /\ monitoring = FALSE
    /\ changeAppends = 0
    /\ clip_origin = "user"
    /\ window_just_opened = FALSE
    /\ window_open_time = 0
    /\ flag_timers = {}
    /\ auto_paste = FALSE
    /\ hotkey_backend = "none"
    /\ show_requests = 0

\* The state after ClipboardHistory(max_history, clear_on_startup) on a first start.
InitIO(faults) ==
  \E file \in InitialFiles, clear \in BOOLEAN, pil \in PillowOutcomes(faults),
     saveResult \in SaveOutcomes(faults) :
    StartState(file, {}, clear, pil, saveResult)


\* ---------------------------------------------------------------- handlers

\* A refresh that leaves the list as it is.
UpdateHistoryList_KeepsView(h, filter_text) ==
  UNCHANGED <<current_filter, filtered_history, selected_index>>

\* update_history_list(filter_text) on the history h the handler leaves.
UpdateHistoryList(h, filter_text) ==
  /\ current_filter' = filter_text
  /\ filtered_history' = FilterList(h, filter_text)
  /\ selected_index' = IF Len(FilterList(h, filter_text)) > 0 THEN 0 ELSE NoIndex

\* add_to_history(text): the watcher's call for a clipboard text.
AddText(text, saveResult) ==
  /\ pc["watcher"] = "idle"
  /\ IF text = <<>> \/ Strip(text) = <<>> \/ IsDuplicateText(history, text)
       THEN /\ UNCHANGED <<history, configFile>>
            /\ lastCall' = Call("add_text", text, "", FALSE, "none", TRUE, {})
       ELSE /\ history' = DequeAppend(history, TextEntry(text, now))
            /\ configFile' = SaveHistory(configFile, history', now, saveResult)
            /\ lastCall' = Call("add_text", text, "", TRUE, saveResult, TRUE, {})
  /\ UNCHANGED <<imageFiles, now, deskVars, PIL_AVAILABLE, viewVars, threadVars>>

\* add_to_history(image_data=data): the watcher's call for a clipboard image.
AddImage(data, writeOk, thumbOk, saveResult) ==
  LET r == SaveImageFromClipboard(history, imageFiles, PIL_AVAILABLE, data,
                                  writeOk, thumbOk)
  IN  /\ pc["watcher"] = "idle"
      /\ IF r.stored
           THEN /\ history' = DequeAppend(history, ImageEntry(r.info, now))
                /\ configFile' = SaveHistory(configFile, history', now, saveResult)
                /\ lastCall' = Call("add_image", <<>>, data, TRUE, saveResult, TRUE, {})
           ELSE /\ UNCHANGED <<history, configFile>>
                /\ lastCall' = Call("add_image", <<>>, data, FALSE, "none", ~r.writeFailed, {})
      /\ imageFiles' = r.files
      /\ UNCHANGED <<now, deskVars, PIL_AVAILABLE, viewVars, threadVars>>

\* show_history_window: an open window is refreshed with the current filter, a
\* new one is built by create_history_ui and filled by update_history_list().
\* A new window sets the guard against an immediate insert and starts the
\* clear_window_flag thread; an open one clears the flag.
ShowHistoryWindowCalled(op) ==
  /\ IF history_window
       THEN /\ UpdateHistoryList(history, current_filter)
            /\ window_just_opened' = FALSE
            /\ UNCHANGED <<window_open_time, flag_timers>>
       ELSE /\ UpdateHistoryList(history, <<>>)
            /\ window_just_opened' = TRUE
            /\ window_open_time' = now
            /\ flag_timers' = flag_timers \cup {now}
  /\ history_window' = TRUE
  /\ lastCall' = Call(op, <<>>, "", FALSE, "none", TRUE, {})
  /\ UNCHANGED <<storeVars, now, watchVars, auto_paste, PIL_AVAILABLE, threadVars>>

\* show_history_window run by the Tk loop: the tray menu, or a call posted
\* with root.after.
ShowHistoryWindow ==
  /\ pc["foreground"] = "idle"
  /\ ShowHistoryWindowCalled("show")
  /\ UNCHANGED hotkeyVars

\* filter_history(filter_text): a key released in the search field.
FilterHistory(filter_text) ==
  /\ pc["foreground"] = "idle"
  /\ history_window
  /\ UpdateHistoryList(history, filter_text)
  /\ lastCall' = Call("filter", filter_text, "", FALSE, "none", TRUE, {})
  /\ UNCHANGED <<storeVars, now, deskVars, PIL_AVAILABLE, history_window, threadVars>>

\* select_item(index): a click on the item shown at position index.
SelectItem(index) ==
  /\ pc["foreground"] = "idle"
  /\ history_window
  /\ index \in 0..(Len(filtered_history) - 1)
  /\ selected_index' = index
  /\ lastCall' = Call("select", <<>>, "", FALSE, "none", TRUE, {})
  /\ UNCHANGED <<storeVars, now, deskVars, PIL_AVAILABLE, history_window, filtered_history,
                 current_filter, threadVars>>

\* on_window_close: the window manager's close button. The window is
\* destroyed and the guard flag cleared. The window's list, filter and selection
\* are not read again before create_history_ui and update_history_list
\* overwrite them, and are written here as they are then.
CloseWindow ==
  /\ pc["foreground"] = "idle"
  /\ history_window
  /\ history_window' = FALSE
  /\ filtered_history' = <<>>
  /\ current_filter' = <<>>
  /\ selected_index' = NoIndex
  /\ window_just_opened' = FALSE
  /\ lastCall' = Call("close", <<>>, "", FALSE, "none", TRUE, {})
  /\ UNCHANGED <<storeVars, now, watchVars, window_open_time, flag_timers, auto_paste,
                 PIL_AVAILABLE, threadVars, hotkeyVars>>

\* Escape and the Close button: self.history_window.destroy() and no more.
DestroyWindow ==
  /\ pc["foreground"] = "idle"
  /\ history_window
  /\ history_window' = FALSE
  /\ filtered_history' = <<>>
  /\ current_filter' = <<>>
  /\ selected_index' = NoIndex
  /\ lastCall' = Call("destroy", <<>>, "", FALSE, "none", TRUE, {})
  /\ UNCHANGED <<storeVars, now, deskVars, PIL_AVAILABLE, threadVars>>

\* The entry delete_selected picks: filtered_history[-(selected_index + 1)].
SelectedEntry == filtered_history[Len(filtered_history) - selected_index]

\* delete_selected: the Delete button.
DeleteSelected(faults) ==
  /\ pc["foreground"] = "idle"
  /\ history_window
  /\ IF /\ selected_index # NoIndex
        /\ 0 <= selected_index /\ selected_index < Len(filtered_history)
        /\ SelectedEntry \in Range(history)
       THEN \E failing \in FailingSets(RemovalTargets(SelectedEntry, imageFiles), faults),
               saveResult \in SaveOutcomes(faults) :
              /\ imageFiles' = RemoveFiles(imageFiles,
                                           RemovalTargets(SelectedEntry, imageFiles),
                                           failing)
              /\ history' = DequeRemove(history, SelectedEntry)
              /\ configFile' = SaveHistory(configFile, history', now, saveResult)
              /\ UpdateHistoryList(history', current_filter)
              /\ lastCall' = Call("delete", <<>>, "", TRUE, saveResult, failing = {},
                                 RemovalTargets(SelectedEntry, imageFiles) \ failing)
       ELSE /\ UNCHANGED <<storeVars, filtered_history, current_filter, selected_index>>
            /\ lastCall' = Call("delete", <<>>, "", FALSE, "none", TRUE, {})
  /\ UNCHANGED <<now, deskVars, PIL_AVAILABLE, history_window, threadVars>>

\* clear_history: the Clear button.
ClearHistory(faults) ==
  /\ pc["foreground"] = "idle"
  /\ history_window
  /\ \E failing \in FailingSets(ClearTargets(history, imageFiles), faults),
        saveResult \in SaveOutcomes(faults) :
       /\ imageFiles' = RemoveFiles(imageFiles, ClearTargets(history, imageFiles), failing)
       /\ history' = <<>>
       /\ configFile' = SaveHistory(configFile, <<>>, now, saveResult)
       /\ UpdateHistoryList(<<>>, <<>>)
       /\ lastCall' = Call("clear", <<>>, "", TRUE, saveResult, failing = {},
                          ClearTargets(history, imageFiles) \ failing)
  /\ UNCHANGED <<now, deskVars, PIL_AVAILABLE, history_window, threadVars>>

\* The process ends and main() or another caller constructs ClipboardHistory
\* again: __init__ loads the durable file and clears it if clear_on_startup.
\* update_history_list returns at once there (no history_scrollable_frame).
Restart(faults) ==
  \E clear \in BOOLEAN, pil \in PillowOutcomes(faults) :
    LET loaded == LoadHistory(<<>>, configFile)
        targets == IF clear
                     THEN ClearTargets(ClearedBeforeRaise(loaded), imageFiles)
                     ELSE {}
    IN  \E failing \in FailingSets(targets, faults),
           saveResult \in SaveOutcomes(faults) :
          /\ history' = StartHistory(configFile, clear)
          /\ configFile' = StartFile(configFile, clear, now, saveResult)
          /\ imageFiles' = RemoveFiles(imageFiles, targets, failing)
          /\ PIL_AVAILABLE' = pil
          /\ history_window' = FALSE
          /\ filtered_history' = <<>>
          /\ current_filter' = <<>>
          /\ selected_index' = NoIndex
          /\ lastCall' = IF StartAborts(configFile, clear)
                           THEN AbortCall(failing = {}, targets \ failing)
                           ELSE StartCall(clear, saveResult, failing = {},
                                          targets \ failing)
          /\ current_clipboard' = <<>>
          /\ current_clipboard_image_hash' = "None"
          /\ monitoring' = FALSE
          /\ window_just_opened' = FALSE
          /\ window_open_time' = 0
          /\ flag_timers' = {}
          /\ auto_paste' = FALSE
          /\ hotkey_backend' = "none"
          /\ show_requests' = 0
          /\ UNCHANGED <<now, clipboard, changeAppends, clip_origin, threadVars>>

\* The handlers, each run to completion, called with texts and images of the
\* given sets and with or without failing file operations.
NextIO(faults, texts, images) ==
  \/ \E text \in texts, saveResult \in SaveOutcomes(faults) : AddText(text, saveResult)
  \/ \E data \in images, writeOk \in WriteOutcomes(faults),
        thumbOk \in WriteOutcomes(faults), saveResult \in SaveOutcomes(faults) :
       AddImage(data, writeOk, thumbOk, saveResult)
  \/ ShowHistoryWindow
  \/ \E filter_text \in Queries : FilterHistory(filter_text)
  \/ \E index \in 0..(MaxHistory - 1) : SelectItem(index)
  \/ CloseWindow
  \/ DeleteSelected(faults)
  \/ ClearHistory(faults)
  \/ Restart(faults)

\* Every file operation succeeds and Pillow is installed.
Init == InitIO(NoFaults)

Next == NextIO(NoFaults, Texts, Images)

Spec == Init /\ [][Next]_vars

\* Writing the durable file and removing image files may fail.
SaveFaultInit == InitIO(SaveFaults)

SaveFaultNext == NextIO(SaveFaults, FaultTexts, FaultImages)

SaveFaultSpec == SaveFaultInit /\ [][SaveFaultNext]_vars

\* Storing an image may fail: Pillow missing, the blob or the thumbnail not written.
StoreFaultInit == InitIO(StoreFaults)

StoreFaultNext == NextIO(StoreFaults, FaultTexts, FaultImages)

StoreFaultSpec == StoreFaultInit /\ [][StoreFaultNext]_vars

\* The durable files of other shapes than save_history writes: not JSON, not
\* to be opened, not an object, 'history' not a list, a number or a string
\* after a record, the string with or without the letters of 'type' in it, the
\* string after an image whose files are there, the string before max_history
\* records; and for comparison no file,
\* an object without 'history', and a file as an older version wrote it.
ShapedFiles ==
  { FileCorrupt, FileUnreadable, FileNotDict, FileNoList,
    FileAbsent, [kind |-> "json", doc |-> [last_update |-> 0]],
    SaveDoc(<<TextEntry(Str_A, 0), JsonNumber>>, 0),
    SaveDoc(<<LegacyRecord(Str_A, 0), JsonString(Str_B)>>, 0),
    SaveDoc(<<TextEntry(Str_A, 0), JsonString(<<"t", "y", "p", "e">>)>>, 0),
    SaveDoc(<<ImageEntry(SaveImageFromClipboard(<<>>, {}, TRUE, "png1", TRUE, TRUE).info, 0),
              JsonString(<<"t", "y", "p", "e", "s">>)>>, 0),
    SaveDoc(<<JsonString(<<"t", "y", "p", "e">>)>> \o
              [i \in 1..MaxHistory |-> TextEntry(IF i % 2 = 1 THEN Str_A ELSE Str_B, 0)], 0),
    SaveDoc(<<TextEntry(Str_A, 0), LegacyRecord(Str_B, 0)>>, 0) }

\* Another program rewrites the durable file.
EditFile(file) ==
  /\ configFile' = file
  /\ lastCall' = Call("edit", <<>>, "", FALSE, "none", TRUE, {})
  /\ UNCHANGED <<history, imageFiles, now, deskVars, PIL_AVAILABLE, viewVars, threadVars>>

\* A start with or without clear_on_startup on a file of any of the shapes.
LoadInit ==
  \E file \in ShapedFiles, clear \in BOOLEAN,
     files \in {{}, {ImagePath(MD5("png1")), PreviewPath(MD5("png1"))}} :
    StartState(file, files, clear, TRUE, "ok")

\* The file is rewritten and the program started again.
LoadNext ==
  \/ \E file \in ShapedFiles : EditFile(file)
  \/ Restart(NoFaults)

LoadSpec == LoadInit /\ [][LoadNext]_vars

\* ----------------------------------------------------------------- threads
\* The same handlers statement by statement, as the watcher thread and the Tk
\* main loop run them: neither takes a lock, so a thread switch can fall
\* between any two statements. Every file operation succeeds here.

\* The texts of the runs with two threads.
ConcTexts == {Str_A, Str_C}

\* What the file holds after a buffered writer that opened it with 'w' flushes
\* doc from offset 0: doc, unless another writer flushed a longer document since
\* this writer's open truncated the file; then the tail of that document stays
\* behind doc and the file is no JSON.
Overlay(file, doc) ==
  IF /\ file.kind = "json"
     /\ "history" \in DOMAIN file.doc
     /\ Len(file.doc.history) > Len(doc.doc.history)
    THEN FileCorrupt
    ELSE doc

\* add_to_history(text) up to the building of the entry.
AddToHistoryCheck(text) ==
  /\ pc["watcher"] = "idle"
  /\ IF text = <<>> \/ Strip(text) = <<>> \/ IsDuplicateText(history, text)
       THEN /\ lastCall' = Call("add_text", text, "", FALSE, "none", TRUE, {})
            /\ UNCHANGED <<pc, loc>>
       ELSE /\ pc' = [pc EXCEPT !["watcher"] = "append"]
            /\ loc' = [loc EXCEPT !["watcher"] =
                         [op |-> "add_text", text |-> text,
                          entry |-> TextEntry(text, now), snapshot |-> <<>>,
                          before |-> Len(history)]]
            /\ UNCHANGED lastCall
  /\ UNCHANGED <<storeVars, now, deskVars, PIL_AVAILABLE, viewVars>>

\* self.history.append(entry)
AddToHistoryAppend ==
  /\ pc["watcher"] = "append"
  /\ history' = DequeAppend(history, loc["watcher"].entry)
  /\ pc' = [pc EXCEPT !["watcher"] = "save_open"]
  /\ UNCHANGED <<configFile, imageFiles, now, deskVars, PIL_AVAILABLE, viewVars, lastCall, loc>>

\* save_history: open(self.config_file, 'w') leaves an empty file.
SaveHistoryOpen(t) ==
  /\ pc[t] = "save_open"
  /\ configFile' = FileCorrupt
  /\ pc' = [pc EXCEPT ![t] = "save_snapshot"]
  /\ UNCHANGED <<history, imageFiles, now, deskVars, PIL_AVAILABLE, viewVars, lastCall, loc>>

\* save_history: list(self.history) is evaluated for json.dump.
SaveHistorySnapshot(t) ==
  /\ pc[t] = "save_snapshot"
  /\ loc' = [loc EXCEPT ![t].snapshot = history]
  /\ pc' = [pc EXCEPT ![t] = "save_write"]
  /\ UNCHANGED <<storeVars, now, deskVars, PIL_AVAILABLE, viewVars, lastCall>>

\* save_history: the document reaches the file when the with block closes it.
\* add_to_history returns after it; delete_selected and clear_history go on to
\* update_history_list.
SaveHistoryWrite(t) ==
  /\ pc[t] = "save_write"
  /\ configFile' = Overlay(configFile, SaveDoc(loc[t].snapshot, now))
  /\ IF t = "watcher"
       THEN /\ pc' = [pc EXCEPT ![t] = "idle"]
            /\ loc' = [loc EXCEPT ![t] = NoLocals]
            /\ lastCall' = [Call("add_text", loc[t].text, "", TRUE, "ok", TRUE, {})
                               EXCEPT !.before = loc[t].before]
       ELSE /\ pc' = [pc EXCEPT ![t] = "update"]
            /\ UNCHANGED <<loc, lastCall>>
  /\ UNCHANGED <<history, imageFiles, now, deskVars, PIL_AVAILABLE, viewVars>>

\* delete_selected up to the os.remove calls: the entry is picked and looked up.
DeleteSelectedCheck ==
  /\ pc["foreground"] = "idle"
  /\ history_window
  /\ IF /\ selected_index # NoIndex
        /\ 0 <= selected_index /\ selected_index < Len(filtered_history)
        /\ SelectedEntry \in Range(history)
       THEN /\ imageFiles' = RemoveFiles(imageFiles,
                                         RemovalTargets(SelectedEntry, imageFiles), {})
            /\ pc' = [pc EXCEPT !["foreground"] = "remove"]
            /\ loc' = [loc EXCEPT !["foreground"] =
                         [op |-> "delete", text |-> <<>>, entry |-> SelectedEntry,
                          snapshot |-> <<>>, before |-> Len(history)]]
            /\ UNCHANGED lastCall
       ELSE /\ lastCall' = Call("delete", <<>>, "", FALSE, "none", TRUE, {})
            /\ UNCHANGED <<imageFiles, pc, loc>>
  /\ UNCHANGED <<history, configFile, now, deskVars, PIL_AVAILABLE, viewVars>>

\* self.history.remove(entry): ValueError if the entry is no longer there; the
\* exception leaves the handler, and Tk's main loop reports it and goes on.
DeleteSelectedRemove ==
  /\ pc["foreground"] = "remove"
  /\ IF loc["foreground"].entry \in Range(history)
       THEN /\ history' = DequeRemove(history, loc["foreground"].entry)
            /\ pc' = [pc EXCEPT !["foreground"] = "save_open"]
            /\ UNCHANGED <<loc, lastCall>>
       ELSE /\ pc' = [pc EXCEPT !["foreground"] = "idle"]
            /\ loc' = [loc EXCEPT !["foreground"] = NoLocals]
            /\ lastCall' = [Call("delete_error", <<>>, "", FALSE, "none", TRUE, {})
                               EXCEPT !.before = loc["foreground"].before]
            /\ UNCHANGED history
  /\ UNCHANGED <<configFile, imageFiles, now, deskVars, PIL_AVAILABLE, viewVars>>

\* clear_history: the loop that removes the image files of list(self.history).
ClearHistoryFiles ==
  /\ pc["foreground"] = "idle"
  /\ history_window
  /\ imageFiles' = RemoveFiles(imageFiles, ClearTargets(history, imageFiles), {})
  /\ pc' = [pc EXCEPT !["foreground"] = "clear"]
  /\ loc' = [loc EXCEPT !["foreground"] =
               [op |-> "clear", text |-> <<>>, entry |-> <<>>, snapshot |-> <<>>,
                before |-> Len(history)]]
  /\ UNCHANGED <<history, configFile, now, deskVars, PIL_AVAILABLE, viewVars, lastCall>>

\* self.history.clear()
ClearHistoryClear ==
  /\ pc["foreground"] = "clear"
  /\ history' = <<>>
  /\ pc' = [pc EXCEPT !["foreground"] = "save_open"]
  /\ UNCHANGED <<configFile, imageFiles, now, deskVars, PIL_AVAILABLE, viewVars, lastCall, loc>>

\* The update_history_list call that ends delete_selected (with the current
\* filter) and clear_history (with none).
RefreshAfterSave ==
  /\ pc["foreground"] = "update"
  /\ UpdateHistoryList(history,
                       IF loc["foreground"].op = "clear" THEN <<>> ELSE current_filter)
  /\ pc' = [pc EXCEPT !["foreground"] = "idle"]
  /\ loc' = [loc EXCEPT !["foreground"] = NoLocals]
  /\ lastCall' = [Call(loc["foreground"].op, <<>>, "", TRUE, "ok", TRUE, {})
                     EXCEPT !.before = loc["foreground"].before]
  /\ UNCHANGED <<storeVars, now, deskVars, PIL_AVAILABLE, history_window>>

ConcNext ==
  \/ \E text \in ConcTexts : AddToHistoryCheck(text)
  \/ AddToHistoryAppend
  \/ \E t \in Threads : SaveHistoryOpen(t)
  \/ \E t \in Threads : SaveHistorySnapshot(t)
  \/ \E t \in Threads : SaveHistoryWrite(t)
  \/ DeleteSelectedCheck
  \/ DeleteSelectedRemove
  \/ ClearHistoryFiles
  \/ ClearHistoryClear
  \/ RefreshAfterSave
  \/ ShowHistoryWindow
  \/ \E index \in 0..(MaxHistory - 1) : SelectItem(index)
  \/ CloseWindow

ConcSpec == Init /\ [][ConcNext]_vars

\* ------------------------------------------------------- time and insert

\* The bytes in the blob file at `path`: save_image_from_clipboard wrote
\* image_data to <md5(image_data)>.png, and no one else writes there.
BlobData(path) == CHOOSE data \in {"png1", "png2"} : ImagePath(MD5(data)) = path

\* The list read from its oldest end: list[index].
EntryAt_Forward(list, index) == list[index + 1]

\* filtered_history[-(index + 1)]: the entry shown at position index.
EntryAt(list, index) == list[Len(list) - index]

\* No guard at all.
InsertBlocked_Never(flag, t, open_time) == FALSE

\* A guard that trusts the window_just_opened flag alone.
InsertBlocked_FlagOnly(flag, t, open_time) == flag

\* The guard of insert_selected_by_index against an insert right after opening.
InsertBlocked(flag, t, open_time) == flag \/ (t - open_time) < GuardWindow

\* Time passes.
AdvanceClock ==
  /\ now < MaxClock
  /\ now' = now + 1
  /\ lastCall' = Call("clock", <<>>, "", FALSE, "none", TRUE, {})
  /\ UNCHANGED <<storeVars, deskVars, PIL_AVAILABLE, viewVars, threadVars>>

\* A clear_window_flag thread wakes up, 0.3 s after its start or later.
ClearWindowFlag ==
  \E t \in flag_timers :
    /\ now >= t + FlagDelay
    /\ window_just_opened' = FALSE
    /\ flag_timers' = flag_timers \ {t}
    /\ lastCall' = Call("clear_flag", <<>>, "", FALSE, "none", TRUE, {})
    /\ UNCHANGED <<storeVars, now, watchVars, window_open_time, auto_paste,
                   PIL_AVAILABLE, viewVars, threadVars, hotkeyVars>>

\* The record of an insert_selected_by_index(index) call.
InsertCall(op, index, text, data) ==
  Call(op, text, data, FALSE, "none", TRUE, {}) @@ [index |-> index]

\* insert_selected_by_index(index): a double click on the item at position
\* index. copyOk: pyperclip.copy or xclip succeeds. The call is recorded as
\* "insert_blocked" when the guard returns, "insert" when the clipboard was
\* written, "insert_none" otherwise. An index of None (insert_selected on an
\* empty list) raises TypeError in the range test, which changes nothing either.
InsertSelectedByIndex(index, copyOk) ==
  /\ pc["foreground"] = "idle"
  /\ history_window
  /\ IF InsertBlocked(window_just_opened, now, window_open_time)
       THEN /\ lastCall' = InsertCall("insert_blocked", index, <<>>, "")
            /\ UNCHANGED <<clipboard, current_clipboard, auto_paste, clip_origin,
                           viewVars>>
     ELSE IF ~(0 <= index /\ index < Len(filtered_history))
       THEN /\ lastCall' = InsertCall("insert_none", index, <<>>, "")
            /\ UNCHANGED <<clipboard, current_clipboard, auto_paste, clip_origin,
                           viewVars>>
     ELSE LET entry == EntryAt(filtered_history, index)
              isImage == Get(entry, "type") = "image"
              written == /\ copyOk
                         /\ IF isImage
                              THEN entry.image_path \in imageFiles
                              ELSE GetStr(entry, "text") # <<>>
          IN  IF written
                THEN /\ clipboard' =
                          IF isImage
                            THEN [text |-> <<>>, image |-> BlobData(entry.image_path)]
                            ELSE [text |-> entry.text, image |-> ""]
                     /\ current_clipboard' =
                          IF isImage THEN current_clipboard ELSE entry.text
                     /\ history_window' = FALSE
                     /\ filtered_history' = <<>>
                     /\ current_filter' = <<>>
                     /\ selected_index' = NoIndex
                     /\ auto_paste' = TRUE
                     /\ clip_origin' = "insert"
                     /\ lastCall' = InsertCall("insert", index,
                                               IF isImage THEN <<>> ELSE entry.text,
                                               IF isImage THEN BlobData(entry.image_path) ELSE "")
                ELSE /\ lastCall' = InsertCall("insert_none", index, <<>>, "")
                     /\ UNCHANGED <<clipboard, current_clipboard, auto_paste,
                                    clip_origin, viewVars>>
  /\ UNCHANGED <<storeVars, now, current_clipboard_image_hash, monitoring,
                 changeAppends, guardVars, PIL_AVAILABLE, threadVars, hotkeyVars>>

\* insert_selected: Return and the Insert button.
InsertSelected(copyOk) == InsertSelectedByIndex(selected_index, copyOk)

\* A paste thread whose failure takes the payload off the clipboard.
AutoPaste_LosesPayload(keyOk) ==
  /\ auto_paste
  /\ auto_paste' = FALSE
  /\ clipboard' = IF keyOk THEN clipboard ELSE EmptyClipboard
  /\ lastCall' = Call("paste", <<>>, "", FALSE, "none", keyOk, {})
  /\ UNCHANGED <<storeVars, now, current_clipboard, current_clipboard_image_hash,
                 monitoring, changeAppends, clip_origin, guardVars, PIL_AVAILABLE,
                 viewVars, threadVars, hotkeyVars>>

\* auto_paste: 0.15 s after the insert the thread presses Ctrl+V, if there is a
\* keyboard controller and it does not raise.
AutoPaste(keyOk) ==
  /\ auto_paste
  /\ auto_paste' = FALSE
  /\ lastCall' = Call("paste", <<>>, "", FALSE, "none", keyOk, {})
  /\ UNCHANGED <<storeVars, now, watchVars, guardVars, PIL_AVAILABLE, viewVars,
                 threadVars, hotkeyVars>>

\* A list whose ends are joined: stepping past one end lands on the other.
ClampIndex_Wraps(new_index, n) == IF n = 0 THEN 0 ELSE (new_index + n) % n

\* The bounds test of navigate_list on a list of n items.
ClampIndex(new_index, n) ==
  IF new_index < 0 THEN 0
  ELSE IF new_index >= n THEN n - 1
  ELSE new_index

\* navigate_list(direction): the Up (-1) and Down (+1) keys.
NavigateList(direction) ==
  /\ pc["foreground"] = "idle"
  /\ history_window
  /\ LET current_index == IF selected_index = NoIndex THEN 0 ELSE selected_index
         new_index == ClampIndex(current_index + direction, Len(filtered_history))
     IN  selected_index' = IF filtered_history = <<>> \/ new_index = current_index
                             THEN selected_index
                             ELSE new_index
  /\ lastCall' = Call("navigate", <<>>, "", FALSE, "none", TRUE, {})
                   @@ [direction |-> direction]
  /\ UNCHANGED <<storeVars, now, deskVars, PIL_AVAILABLE, history_window,
                 filtered_history, current_filter, threadVars>>

\* The entries an earlier run left in the durable file: a text, an image and
\* another text.
SavedEntries ==
  << TextEntry(Str_A, 0),
     ImageEntry(SaveImageFromClipboard(<<>>, {}, TRUE, "png1", TRUE, TRUE).info, 0),
     TextEntry(Str_B, 0) >>

\* A start on the file of an earlier run, whose image files are still there or
\* have been removed since.
InsertInit ==
  \E files \in {{}, {ImagePath(MD5("png1")), PreviewPath(MD5("png1"))}} :
    StartState(SaveDoc(SavedEntries, 0), files, FALSE, TRUE, "ok")

\* The window with the clock running: opening, selecting and inserting.
InsertNext ==
  \/ AdvanceClock
  \/ ClearWindowFlag
  \/ ShowHistoryWindow
  \/ CloseWindow
  \/ DestroyWindow
  \/ \E direction \in {-1, 1} : NavigateList(direction)
  \/ \E copyOk \in BOOLEAN : InsertSelected(copyOk)
  \/ \E index \in 0..(MaxHistory - 1), copyOk \in BOOLEAN :
       InsertSelectedByIndex(index, copyOk)
  \/ \E keyOk \in BOOLEAN : AutoPaste(keyOk)
  \/ Restart(NoFaults)

InsertSpec == InsertInit /\ [][InsertNext]_vars

\* The queries typed while the clock runs: none, and one that the text
\* copied meanwhile matches.
ReopenQueries == {Str_Empty, Str_C}

\* The hotkey pressed again on an open window, with the clock running, while
\* the user searches and the watcher appends a text.
ReopenNext ==
  \/ AdvanceClock
  \/ ClearWindowFlag
  \/ ShowHistoryWindow
  \/ CloseWindow
  \/ \E filter_text \in ReopenQueries : FilterHistory(filter_text)
  \/ AddText(Str_C, "ok")
  \/ \E copyOk \in BOOLEAN : InsertSelected(copyOk)
  \/ \E keyOk \in BOOLEAN : AutoPaste(keyOk)

ReopenSpec == InsertInit /\ [][ReopenNext]_vars

\* -------------------------------------------------------------- the hotkey

\* The calls of show_history_window waiting in the Tk loop at one time.
MaxShowRequests == 2

\* register_hotkey: the keyboard library if it is there and takes the hotkey,
\* else pynput if it is there and its listener starts, else no hotkey.
HotkeyBackend(keyboardOk, pynputOk) ==
  IF keyboardOk THEN "keyboard"
  ELSE IF pynputOk THEN "pynput"
  ELSE "failed"

RegisterHotkey(keyboardOk, pynputOk) ==
  /\ hotkey_backend = "none"
  /\ hotkey_backend' = HotkeyBackend(keyboardOk, pynputOk)
  /\ lastCall' = Call("register_hotkey", <<>>, "", FALSE, "none", TRUE, {})
  /\ UNCHANGED <<storeVars, now, watchVars, guardVars, auto_paste, show_requests,
                 PIL_AVAILABLE, viewVars, threadVars>>

\* Ctrl+Alt+Z seen by the listener thread of the library.  keyboard was given
\* show_history_window itself and calls it there; pynput was given a lambda
\* that posts the call to the Tk loop with root.after(0, ...).
HotkeyPressed ==
  \/ /\ hotkey_backend = "keyboard"
     /\ ShowHistoryWindowCalled("hotkey_show")
     /\ UNCHANGED hotkeyVars
  \/ /\ hotkey_backend = "pynput"
     /\ show_requests < MaxShowRequests
     /\ show_requests' = show_requests + 1
     /\ lastCall' = Call("hotkey_post", <<>>, "", FALSE, "none", TRUE, {})
     /\ UNCHANGED <<storeVars, now, watchVars, guardVars, auto_paste, hotkey_backend,
                    PIL_AVAILABLE, viewVars, threadVars>>

\* The Tk loop runs a posted show_history_window.
RunShowRequest ==
  /\ pc["foreground"] = "idle"
  /\ show_requests > 0
  /\ show_requests' = show_requests - 1
  /\ ShowHistoryWindowCalled("show")
  /\ UNCHANGED hotkey_backend

\* The hotkey of either library while the clock runs and the window is used.
HotkeyNext ==
  \/ AdvanceClock
  \/ ClearWindowFlag
  \/ \E keyboardOk, pynputOk \in BOOLEAN : RegisterHotkey(keyboardOk, pynputOk)
  \/ HotkeyPressed
  \/ RunShowRequest
  \/ CloseWindow
  \/ \E direction \in {-1, 1} : NavigateList(direction)
  \/ \E copyOk \in BOOLEAN : InsertSelected(copyOk)
  \/ \E keyOk \in BOOLEAN : AutoPaste(keyOk)

HotkeySpec == InsertInit /\ [][HotkeyNext]_vars

\* -------------------------------------------------------------- the window

\* The texts copied while the window is in use.
ViewTexts == {Str_A, Str_B}

\* The queries typed into the search field: none, a letter in the other case
\* than the text that has it, a character of the image placeholder, the
\* keyword, and the keyword after another letter.
ViewQueries == {Str_Empty, <<"a">>, <<"[">>, ImageKeyword, <<"b">> \o ImageKeyword}

\* Records of a durable file that agree in every field: the same text with
\* the same timestamp before and after another text.
RepeatedEntries == <<TextEntry(Str_A, 0), TextEntry(Str_B, 0), TextEntry(Str_A, 0)>>

\* A first start, or a start on the file of an earlier run.
ViewInit ==
  \E file \in {FileAbsent, SaveDoc(SavedEntries, 0), SaveDoc(RepeatedEntries, 0)} :
    StartState(file, {}, FALSE, TRUE, "ok")

\* The window in use while the watcher goes on appending.
ViewNext ==
  \/ \E text \in ViewTexts : AddText(text, "ok")
  \/ \E data \in Images : AddImage(data, TRUE, TRUE, "ok")
  \/ ShowHistoryWindow
  \/ \E filter_text \in ViewQueries : FilterHistory(filter_text)
  \/ \E index \in 0..(MaxHistory - 1) : SelectItem(index)
  \/ \E direction \in {-1, 1} : NavigateList(direction)
  \/ CloseWindow
  \/ DestroyWindow
  \/ DeleteSelected(NoFaults)
  \/ ClearHistory(NoFaults)

ViewSpec == ViewInit /\ [][ViewNext]_vars

\* ------------------------------------------------------------- the watcher

\* What the user copies: a text, a text with blanks around it, a text of
\* blanks, an image, and an image that the copying program offers with a text
\* representation as well.
Clips ==
  { [text |-> Str_A, image |-> ""], [text |-> Str_B, image |-> ""],
    [text |-> Str_Padded, image |-> ""],
    [text |-> Str_Blank, image |-> ""], [text |-> <<>>, image |-> "png1"],
    [text |-> Str_A, image |-> "png1"] }

\* The user copies something in another program.  clip_origin notes a copy
\* over a text that the running watcher holds as its last seen text.
SetClipboard(clip) ==
  /\ clipboard' = clip
  /\ changeAppends' = 0
  /\ clip_origin' = IF /\ monitoring
                         /\ clipboard.text # <<>> /\ clipboard.image = ""
                         /\ current_clipboard = clipboard.text
                      THEN "user_over_text"
                      ELSE "user"
  /\ lastCall' = Call("copy", clip.text, clip.image, FALSE, "none", TRUE, {})
  /\ UNCHANGED <<storeVars, now, current_clipboard, current_clipboard_image_hash,
                 monitoring, guardVars, auto_paste, PIL_AVAILABLE, viewVars, threadVars,
                 hotkeyVars>>

\* An image query whose failure goes unnoticed: the data is returned anyway.
CheckClipboardImage_IgnoresFailure(clip, imageOk) == clip.image

\* What check_clipboard_image returns: the image data, or None (written "")
\* when there is no image or every xclip call fails or times out.
CheckClipboardImage(clip, imageOk) == IF imageOk THEN clip.image ELSE ""

\* A watcher that takes no image for new.
ImageIsNew_Never(image_data, last_hash) == FALSE

\* The test of the image branch: there is image data and its md5 is not the
\* remembered one.
ImageIsNew(image_data, last_hash) == image_data # "" /\ MD5(image_data) # last_hash

\* A watcher that takes every text that differs from the remembered one.
TextIsNew_BlankToo(current, last_text) == current # last_text

\* The test of the text branch: the text differs from the remembered one and
\* is neither empty nor blank.
TextIsNew(current, last_text) ==
  current # last_text /\ current # <<>> /\ Strip(current) # <<>>

\* The record of a round of the loop: lastCall with the outcome of its queries.
TickCall(op, text, data, mutated, imageOk, pasteOk) ==
  Call(op, text, data, mutated, IF mutated THEN "ok" ELSE "none", TRUE, {})
    @@ [imageOk |-> imageOk, pasteOk |-> pasteOk]

\* monitor_clipboard up to its loop: the clipboard as it is becomes the last
\* seen state. pasteOk: pyperclip.paste() does not raise; imageOk: the image
\* query does not fail.
MonitorStart(pasteOk, imageOk) ==
  /\ ~monitoring
  /\ pc["watcher"] = "idle"
  /\ monitoring' = TRUE
  /\ IF pasteOk
       THEN /\ current_clipboard' = clipboard.text
            /\ current_clipboard_image_hash' =
                 IF CheckClipboardImage(clipboard, imageOk) # ""
                   THEN MD5(clipboard.image)
                   ELSE current_clipboard_image_hash
       ELSE /\ current_clipboard' = <<>>
            /\ UNCHANGED current_clipboard_image_hash
  /\ lastCall' = Call("monitor", <<>>, "", FALSE, "none", TRUE, {})
  /\ UNCHANGED <<storeVars, now, clipboard, changeAppends, clip_origin, guardVars,
                 auto_paste, PIL_AVAILABLE, viewVars, threadVars, hotkeyVars>>

\* changeAppends after a tick that appended or did not.
Counted(appended) ==
  IF appended /\ changeAppends < MaxChangeAppends
    THEN changeAppends + 1
    ELSE changeAppends

\* One round of the loop of monitor_clipboard and the sleep that ends it: an
\* image whose hash is not the last seen one is added, and the text is left
\* for the next round; otherwise a text that is not the last seen one and is
\* not blank is added. imageOk: the image query does not fail; pasteOk:
\* pyperclip.paste() does not raise. An exception of either is swallowed and
\* the loop goes on.
MonitorTick(pasteOk, imageOk) ==
  LET image_data == CheckClipboardImage(clipboard, imageOk) IN
  /\ monitoring
  /\ pc["watcher"] = "idle"
  /\ now' = IF now + PollInterval > MaxClock THEN MaxClock ELSE now + PollInterval
  /\ IF ImageIsNew(image_data, current_clipboard_image_hash)
       THEN LET r == SaveImageFromClipboard(history, imageFiles, PIL_AVAILABLE,
                                            image_data, TRUE, TRUE)
            IN  /\ current_clipboard_image_hash' = MD5(image_data)
                /\ current_clipboard' = <<>>
                /\ IF r.stored
                     THEN /\ history' = DequeAppend(history, ImageEntry(r.info, now))
                          /\ configFile' = SaveHistory(configFile, history', now, "ok")
                     ELSE UNCHANGED <<history, configFile>>
                /\ imageFiles' = r.files
                /\ changeAppends' = Counted(r.stored)
                /\ lastCall' = TickCall("add_image", <<>>, image_data, r.stored,
                                        imageOk, pasteOk)
     ELSE IF pasteOk /\ TextIsNew(clipboard.text, current_clipboard)
       THEN LET appended == /\ clipboard.text # <<>>
                             /\ Strip(clipboard.text) # <<>>
                             /\ ~IsDuplicateText(history, clipboard.text)
            IN  /\ current_clipboard' = clipboard.text
                /\ current_clipboard_image_hash' = "None"
                /\ IF appended
                     THEN /\ history' = DequeAppend(history, TextEntry(clipboard.text, now))
                          /\ configFile' = SaveHistory(configFile, history', now, "ok")
                     ELSE UNCHANGED <<history, configFile>>
                /\ changeAppends' = Counted(appended)
                /\ lastCall' = TickCall("add_text", clipboard.text, "", appended,
                                        imageOk, pasteOk)
                /\ UNCHANGED imageFiles
       ELSE /\ lastCall' = TickCall("tick", <<>>, "", FALSE, imageOk, pasteOk)
            /\ UNCHANGED <<storeVars, current_clipboard, current_clipboard_image_hash,
                           changeAppends>>
  /\ UNCHANGED <<clipboard, monitoring, clip_origin, guardVars, auto_paste,
                 PIL_AVAILABLE, viewVars, threadVars, hotkeyVars>>

\* A first start with Pillow installed or not.
WatchInit ==
  \E pil \in BOOLEAN : StartState(FileAbsent, {}, TRUE, pil, "ok")

\* The watcher polling while the user copies.
WatchNext ==
  \/ \E clip \in Clips : SetClipboard(clip)
  \/ \E pasteOk \in BOOLEAN, imageOk \in BOOLEAN : MonitorStart(pasteOk, imageOk)
  \/ \E pasteOk \in BOOLEAN, imageOk \in BOOLEAN : MonitorTick(pasteOk, imageOk)

WatchSpec == WatchInit /\ [][WatchNext]_vars

\* What the user copies while entries are inserted: a text, an image.
CommitClips == { [text |-> Str_C, image |-> ""], [text |-> <<>>, image |-> "png1"] }

\* A start on the file of an earlier run whose image files are there.
CommitInit ==
  StartState(SaveDoc(SavedEntries, 0), {ImagePath(MD5("png1")), PreviewPath(MD5("png1"))},
             FALSE, TRUE, "ok")

\* The watcher running, its queries succeeding, while the window is opened
\* and an entry inserted; the time passes with the rounds of the watcher.
CommitNext ==
  \/ ClearWindowFlag
  \/ ShowHistoryWindow
  \/ \E direction \in {-1, 1} : NavigateList(direction)
  \/ \E copyOk \in BOOLEAN : InsertSelected(copyOk)
  \/ \E clip \in CommitClips : SetClipboard(clip)
  \/ MonitorStart(TRUE, TRUE)
  \/ MonitorTick(TRUE, TRUE)

CommitSpec == CommitInit /\ [][CommitNext]_vars

\* start() starts the watcher thread, and the thread keeps running its loop.
CommitFairSpec ==
  /\ CommitSpec
  /\ WF_vars(MonitorStart(TRUE, TRUE))
  /\ WF_vars(MonitorTick(TRUE, TRUE))

\* -------------------------------------------------------------- properties

IsAppend(call) == call.op \in {"add_text", "add_image"}

IsTextEntry(e) == "type" \in DOMAIN e /\ e.type = "text" /\ "text" \in DOMAIN e

IsImageEntry(e) == "type" \in DOMAIN e /\ e.type = "image"

\* Whether e is the entry an append of the call's text or image creates.
IsEntryOf(e, call) ==
  IF call.op = "add_text"
    THEN IsTextEntry(e) /\ e.text = call.text
    ELSE IsImageEntry(e) /\ e.image_hash = MD5(call.data)

\* C1: in every reachable state, after any sequence of appends (text or image),
\* removes, clears and loads, the history holds at most max_history entries.
C1_LenAtMostMax == Len(history) <= MaxHistory

\* A full history that an accepted append has just been made to.
C1_Witness ==
  /\ IsAppend(lastCall) /\ lastCall.mutated
  /\ lastCall.before = MaxHistory
  /\ Len(history) = MaxHistory

\* C2: an append accepted while the history holds max_history entries removes
\* exactly the head, keeps the other entries in their order and puts the new
\* entry last.
C2_EvictsOldest ==
  [][(/\ IsAppend(lastCall') /\ lastCall'.mutated
      /\ Len(history) = MaxHistory)
     => /\ Len(history') = MaxHistory
        /\ SubSeq(history', 1, MaxHistory - 1) = Tail(history)
        /\ IsEntryOf(history'[MaxHistory], lastCall')]_vars

\* An accepted text append that found the history full.
C2_Witness ==
  /\ lastCall.op = "add_text" /\ lastCall.mutated
  /\ lastCall.before = MaxHistory
  /\ Len(history) = MaxHistory
  /\ history[MaxHistory].text = lastCall.text

\* C3: appending the text of the last entry (a text entry), or an image with the
\* hash of the last entry (an image entry), changes nothing in the history, and
\* for the image no blob or preview file is written.
C3_AdjacentDuplicateIsNoOp ==
  [][/\ (/\ lastCall'.op = "add_text"
         /\ history # <<>>
         /\ IsTextEntry(history[Len(history)])
         /\ history[Len(history)].text = lastCall'.text)
        => history' = history
     /\ (/\ lastCall'.op = "add_image"
         /\ history # <<>>
         /\ IsImageEntry(history[Len(history)])
         /\ history[Len(history)].image_hash = MD5(lastCall'.data))
        => (history' = history /\ imageFiles' = imageFiles)]_vars

\* An image append that was dropped because the last entry has its hash.
C3_Witness ==
  /\ lastCall.op = "add_image" /\ ~lastCall.mutated
  /\ history # <<>>
  /\ IsImageEntry(history[Len(history)])
  /\ history[Len(history)].image_hash = MD5(lastCall.data)

\* Whether the call appends a non-blank value that differs, in kind or in
\* value, from the last entry of history h.
DiffersFromLast(h, call) ==
  /\ IsAppend(call)
  /\ call.op = "add_text" => call.text # <<>> /\ Strip(call.text) # <<>>
  /\ h # <<>> => ~IsEntryOf(h[Len(h)], call)

\* Whether h2 is h with an entry of the call's value appended: one entry longer,
\* or, for a full h, shifted by one.
GrowsOrShifts(h, h2, call) ==
  /\ h2 # <<>>
  /\ IsEntryOf(h2[Len(h2)], call)
  /\ IF Len(h) < MaxHistory
       THEN SubSeq(h2, 1, Len(h2) - 1) = h
       ELSE SubSeq(h2, 1, Len(h2) - 1) = Tail(h)

\* C4 as stated: an append of a non-blank value that differs from the last
\* entry is always accepted and grows or shifts the history, an equal earlier
\* entry notwithstanding.
C4_AlwaysAccepted ==
  [][DiffersFromLast(history, lastCall')
     => (lastCall'.mutated /\ GrowsOrShifts(history, history', lastCall'))]_vars

\* C4, amended: an append of a non-blank value that differs from the last entry
\* is accepted and grows or shifts the history, an equal earlier entry
\* notwithstanding, provided that for an image Pillow is available and the
\* blob file is written; otherwise the image is dropped and nothing changes.
C4_AcceptedWhenStored ==
  [][DiffersFromLast(history, lastCall')
     => IF lastCall'.op = "add_image" /\ ~(PIL_AVAILABLE /\ lastCall'.filesOk)
          THEN ~lastCall'.mutated /\ history' = history
          ELSE lastCall'.mutated
               /\ GrowsOrShifts(history, history', lastCall')]_vars

\* A text accepted although an equal entry stands two places before it:
\* [A, image, A].
C4_Witness ==
  /\ lastCall.op = "add_text" /\ lastCall.mutated
  /\ Len(history) = 3
  /\ IsTextEntry(history[1]) /\ history[1].text = lastCall.text
  /\ IsImageEntry(history[2])
  /\ IsTextEntry(history[3]) /\ history[3].text = lastCall.text

\* C5: in every reachable state, with file writes succeeding and no file
\* removed from outside, the files named by image_path and preview_path of
\* every image entry of the history exist in the images directory.
C5_ImageFilesExist ==
  \A i \in 1..Len(history) :
    IsImageEntry(history[i])
      => /\ history[i].image_path \in imageFiles
         /\ history[i].preview_path \in imageFiles

\* C6: when an image entry leaves the history, by delete_selected or by the
\* deque dropping its head on an overflowing append, then (deletions
\* succeeding) neither its blob file nor its preview file remains.
C6_FilesDeletedWithEntry ==
  [][\A i \in 1..Len(history) :
       (/\ IsImageEntry(history[i])
        /\ history[i] \notin Range(history')
        /\ lastCall'.op \in {"add_text", "add_image", "delete"}
        /\ lastCall'.filesOk)
       => /\ history[i].image_path \notin imageFiles'
          /\ history[i].preview_path \notin imageFiles']_vars

\* The entries clear_history finds: those of the history for the Clear button,
\* those load_history has just read for a clear on startup.
EntriesBeforeClear(call) ==
  IF call.op = "clear" THEN history ELSE LoadHistory(<<>>, configFile)

IsClear(call) == call.op \in {"clear", "start_clear"}

\* Whether no blob or preview file of an image entry of h is among `files`.
NoFilesOf(h, files) ==
  \A i \in 1..Len(h) :
    IsImageEntry(h[i])
      => h[i].image_path \notin files /\ h[i].preview_path \notin files

HoldsEmptyList(file) == file.kind = "json" /\ file.doc.history = <<>>

\* C7 as stated: after clear_history the history is empty, the durable file
\* holds an empty list and, deletions succeeding, no blob or preview file of an
\* image entry present before the call remains.
C7_ClearLeavesNothing ==
  [][IsClear(lastCall')
     => /\ history' = <<>>
        /\ HoldsEmptyList(configFile')
        /\ lastCall'.filesOk
             => NoFilesOf(EntriesBeforeClear(lastCall'), imageFiles')]_vars

\* C7, amended: after clear_history the history is empty; the durable file
\* holds an empty list if save_history succeeded (a failed save is only printed
\* and leaves the old or a truncated file); and, deletions succeeding, no blob
\* or preview file of an image entry present before the call remains.
C7_ClearLeavesNothingIfSaved ==
  [][IsClear(lastCall')
     => /\ history' = <<>>
        /\ lastCall'.save = "ok" => HoldsEmptyList(configFile')
        /\ lastCall'.save # "ok" => configFile' \in {configFile, FileCorrupt}
        /\ lastCall'.filesOk
             => NoFilesOf(EntriesBeforeClear(lastCall'), imageFiles')]_vars

\* A clear that removed image files and whose save succeeded.
C7_Witness ==
  /\ lastCall.op = "clear"
  /\ lastCall.save = "ok" /\ lastCall.filesOk
  /\ lastCall.before > 0 /\ lastCall.removed # {}
  /\ history = <<>> /\ HoldsEmptyList(configFile)

\* C8: whenever an accepted append (an evicting one included), a remove or a
\* clear has completed and its save_history did not fail, the list in the
\* durable file equals the history in memory.
C8_PersistedAfterMutation ==
  (lastCall.mutated /\ lastCall.save = "ok")
    => (configFile.kind = "json" /\ configFile.doc.history = history)

\* A remove that left entries behind and whose save succeeded.
C8_Witness ==
  /\ lastCall.op = "delete" /\ lastCall.mutated /\ lastCall.save = "ok"
  /\ history # <<>> /\ Len(history) < lastCall.before
  /\ configFile.kind = "json" /\ configFile.doc.history = history

\* The records of list that a deque of max_history keeps when it holds n.
Kept(list, n) == SubSeq(list, Len(list) - n + 1, Len(list))

\* Whether entry e is record rec but for a 'type' of 'text' that rec lacks.
SameButLegacyType(e, rec) ==
  /\ \A k \in DOMAIN rec : k \in DOMAIN e /\ e[k] = rec[k]
  /\ DOMAIN e \ DOMAIN rec \subseteq {"type"}
  /\ "type" \notin DOMAIN rec => e.type = "text"

\* C9: load_history of the file save_history wrote for a history H of at most
\* max_history entries yields H, entry for entry and field for field; and of
\* any file with a list, the only change it makes to a record it keeps is that
\* one without 'type' gets the type 'text'.
C9_LoadAfterSaveIsIdentity ==
  [][(/\ lastCall'.op = "start_load"
      /\ configFile.kind = "json"
      /\ "history" \in DOMAIN configFile.doc)
     => /\ configFile.doc.history = history => history' = history
        /\ Len(history') <= Len(configFile.doc.history)
        /\ Len(history') = MaxHistory \/ Len(history') = Len(configFile.doc.history)
        /\ \A i \in 1..Len(history') :
             SameButLegacyType(history'[i],
                               Kept(configFile.doc.history, Len(history'))[i])]_vars

\* A start that loaded a saved full history with an image and a text in it.
C9_Witness ==
  /\ lastCall.op = "start_load"
  /\ configFile.kind = "json" /\ "history" \in DOMAIN configFile.doc
  /\ configFile.doc.history = history
  /\ Len(history) = MaxHistory
  /\ \E i \in 1..Len(history) : IsImageEntry(history[i])
  /\ \E i \in 1..Len(history) : IsTextEntry(history[i])

\* The positions at which a thread is inside a mutation or its save.
Writing == {"append", "remove", "clear", "save_open", "save_snapshot", "save_write"}

\* No two writers overlap.
NoOverlap == ~(pc["watcher"] \in Writing /\ pc["foreground"] \in Writing)

\* Once every operation has completed, the list in the file is the history.
QuiescentConsistency ==
  (/\ pc = AllIdle
   /\ lastCall.mutated
   /\ lastCall.op \in {"add_text", "delete", "clear"})
    => (configFile.kind = "json" /\ configFile.doc.history = history)

\* No self.history.remove(entry) raises for an entry that delete_selected found.
NoFailedRemove == lastCall.op # "delete_error"

\* C10: appends of the watcher thread and removes and clears of the foreground
\* are serialized, the mutation with its save as one critical section: no two
\* writers overlap, the file's list equals the history once all operations
\* have completed, and no remove fails for an entry evicted between its
\* membership check and its removal.
C10_Serialized == NoOverlap /\ QuiescentConsistency /\ NoFailedRemove

IsInsert(call) == call.op \in {"insert", "insert_blocked", "insert_none"}

\* C11: an insert requested less than 0.5 s after the window was opened is
\* suppressed entirely: the OS clipboard is not written, no auto_paste thread is
\* started, the history and the watcher's last-seen clipboard are unchanged,
\* and the window stays open.
C11_EarlyInsertSuppressed ==
  [][(IsInsert(lastCall') /\ now - window_open_time < GuardWindow)
     => /\ lastCall'.op = "insert_blocked"
        /\ clipboard' = clipboard
        /\ auto_paste' = auto_paste
        /\ history' = history
        /\ current_clipboard' = current_clipboard
        /\ current_clipboard_image_hash' = current_clipboard_image_hash
        /\ history_window']_vars

\* An insert of a shown item, 0.3 s or 0.4 s after the opening, that the flag
\* no longer blocks and the time test does.
C11_Witness ==
  /\ lastCall.op = "insert_blocked"
  /\ history_window /\ ~window_just_opened
  /\ now - window_open_time \in {FlagDelay, GuardWindow - 1}
  /\ lastCall.index \in 0..(Len(filtered_history) - 1)

\* C15: an insert at index i that is not suppressed, with 0 <= i < n for the
\* filtered list of length n, and whose clipboard write succeeds, leaves on the
\* OS clipboard the payload of filtered[n-1-i] (counted from 0): the text of a
\* text entry, the bytes of the blob file of an image entry, and nothing else.
C15_InsertCopiesShownEntry ==
  [][lastCall'.op = "insert"
     => LET n == Len(filtered_history)
            i == lastCall'.index
            e == filtered_history[(n - 1 - i) + 1]
        IN  /\ 0 <= i /\ i < n
            /\ IF IsImageEntry(e)
                 THEN /\ clipboard'.text = <<>>
                      /\ ImagePath(MD5(clipboard'.image)) = e.image_path
                      /\ e.image_path \in imageFiles
                 ELSE clipboard' = [text |-> e.text, image |-> ""]]_vars

\* The oldest of three entries, a text, inserted from the last position.
C15_Witness ==
  /\ lastCall.op = "insert"
  /\ lastCall.index = 2
  /\ clipboard = [text |-> Str_A, image |-> ""]
  /\ history[1].text = Str_A /\ Len(history) = 3

\* C12: the cursor is unset exactly on an empty view and otherwise lies in
\* 0 .. len(view) - 1; navigate(-1) and navigate(+1) move it by one step when
\* the target is in range, leave it where it is at the ends (no wrap-around),
\* and do nothing on an empty view.
C12_CursorInRangeNoWrap ==
  [][ /\ IF filtered_history' = <<>>
           THEN selected_index' = NoIndex
           ELSE selected_index' \in 0..(Len(filtered_history') - 1)
      /\ lastCall'.op = "navigate" =>
           /\ filtered_history' = filtered_history
           /\ selected_index' =
                IF filtered_history = <<>> THEN NoIndex
                ELSE IF (selected_index + lastCall'.direction)
                          \in 0..(Len(filtered_history) - 1)
                  THEN selected_index + lastCall'.direction
                  ELSE selected_index ]_vars

\* Down was pressed on the last of three items and the cursor stayed there.
C12_Witness ==
  /\ lastCall.op = "navigate"
  /\ lastCall.direction = 1
  /\ Len(filtered_history) = 3
  /\ selected_index = 2
  /\ current_filter = <<>>
  /\ Len(history) = 3

\* update_history_list ran for the search field or for the hotkey.
IsRefresh(call) == call.op \in {"filter", "show"}

\* C13: with the empty query the view has as many items as the history, and
\* the item at position i is the i-th most recent entry: every entry is shown
\* once, the most recent first.
C13_EmptyQueryShowsAll ==
  [][ (IsRefresh(lastCall') /\ current_filter' = <<>>) =>
        /\ Len(filtered_history') = Len(history')
        /\ \A i \in 0..(Len(history') - 1) :
             EntryAt(filtered_history', i) = history'[Len(history') - i] ]_vars

\* The search field was emptied over a history of two texts and an image.
C13_Witness ==
  /\ lastCall.op = "filter"
  /\ lastCall.text = <<>>
  /\ Len(history) = 3
  /\ Len(filtered_history) = 3
  /\ \E i \in 1..3 : IsImageEntry(history[i])
  /\ history[3] # history[1]

\* q is a case-insensitive substring of the text or of the preview of e.
InTextOrPreview(q, e) ==
  \/ Contains(Lower(q), Lower(GetStr(e, "text")))
  \/ Contains(Lower(q), Lower(GetStr(e, "preview")))

\* q matches the keyword: it is a part of it or has it as a part, in any case.
MatchesKeyword(q) ==
  Contains(Lower(q), ImageKeyword) \/ Contains(ImageKeyword, Lower(q))

\* The view after a refresh with a non-empty query is the subsequence of the
\* history that Included selects.
ViewSelects(Included(_, _)) ==
  (IsRefresh(lastCall') /\ current_filter' # <<>>) =>
    filtered_history' = SelectSeq(history', LAMBDA e : Included(current_filter', e))

\* The entries of C14 as stated: an image is shown iff the query matches the keyword.
ByKeywordOnly(q, e) ==
  IF IsImageEntry(e) THEN MatchesKeyword(q) ELSE InTextOrPreview(q, e)

\* An image is shown iff the query is a part of its placeholder preview or has
\* the keyword as a part.
ByPlaceholderOrKeyword(q, e) ==
  IF IsImageEntry(e)
    THEN Contains(Lower(q), Lower(ImagePlaceholder)) \/ Contains(ImageKeyword, Lower(q))
    ELSE InTextOrPreview(q, e)

\* C14 as stated: for a non-empty query the view is the subsequence of the
\* history in which a text entry is included iff the query is a
\* case-insensitive substring of its text or preview, and an image entry iff
\* the query matches the image keyword.
C14_ImageByKeywordOnly == [][ViewSelects(ByKeywordOnly)]_vars

\* C14, amended: for a non-empty query the view is the subsequence of the
\* history in which a text entry is included iff the query is a
\* case-insensitive substring of its text or preview, and an image entry iff
\* the query is a case-insensitive substring of its placeholder preview or
\* contains the image keyword.
C14_ImageByPlaceholderOrKeyword == [][ViewSelects(ByPlaceholderOrKeyword)]_vars

\* The query "[" was typed over two texts and an image, and the image alone is shown.
C14_Witness ==
  /\ lastCall.op = "filter"
  /\ current_filter = <<"[">>
  /\ Len(history) = 3
  /\ Len(filtered_history) = 1
  /\ IsImageEntry(filtered_history[1])

\* The positions of h that a view with the query q shows.
ShownPositions(h, q) == {j \in 1..Len(h) : q = <<>> \/ Matches(h[j], q)}

\* The position in h of the entry that a view of h with the query q shows at
\* position i, the most recent first.
ShownPosition(h, q, i) ==
  CHOOSE j \in ShownPositions(h, q) :
    Cardinality({k \in ShownPositions(h, q) : k >= j}) = i + 1

\* h without the entry at position j.
RemoveAt(h, j) == SubSeq(h, 1, j - 1) \o SubSeq(h, j + 1, Len(h))

C17_QueryKeptAcrossDeleteAndClear ==
  [][ (lastCall'.op \in {"delete", "clear"} /\ lastCall'.mutated) =>
        /\ current_filter' = current_filter
        /\ filtered_history' = FilterList(history', current_filter) ]_vars

\* C18: every mutation of the history is followed by a notification that
\* recomputes an open view. Each handler runs to completion and leaves
\* nothing queued for the window, so the recomputation a mutation brings about
\* has taken place when its handler returns: while the window is open, the
\* view is the filter of the active query over the current history.
C18_OpenViewFollowsHistory ==
  history_window => filtered_history = FilterList(history, current_filter)

\* A process start: __init__ has run.
IsStart(call) == call.op \in {"start_load", "start_clear"}

\* The list of records a durable file holds, none if it is missing or unreadable.
FileRecords(file) ==
  IF file.kind = "json" /\ "history" \in DOMAIN file.doc THEN file.doc.history ELSE <<>>

\* h is the list read from the file: its newest max_history records, a record
\* without 'type' read as a text.
ReadFrom(file, h) ==
  /\ Len(h) = IF Len(FileRecords(file)) > MaxHistory
                THEN MaxHistory
                ELSE Len(FileRecords(file))
  /\ \A i \in 1..Len(h) : SameButLegacyType(h[i], Kept(FileRecords(file), Len(h))[i])

C20_OneAppendPerChange == changeAppends <= 1

\* C21: the watcher's remembered text and remembered image hash are never
\* both set: not after monitor_clipboard's initialisation, not after a tick,
\* not after an insert.
C21_LastSeenExclusive ==
  ~(current_clipboard # <<>> /\ current_clipboard_image_hash # "None")

\* A round of the watcher's loop has run.
IsTick(call) == call.op \in {"add_image", "add_text", "tick"} /\ "imageOk" \in DOMAIN call

\* C22: on a tick where the clipboard yields image data whose hash differs
\* from the remembered one, the watcher remembers the new hash, resets the
\* remembered text, calls append with the image, and neither examines nor
\* appends the clipboard text in that tick: the history is unchanged or has the
\* image as its new last entry.
C22_NewImageTick ==
  [][ ( /\ IsTick(lastCall')
        /\ lastCall'.imageOk
        /\ clipboard.image # ""
        /\ MD5(clipboard.image) # current_clipboard_image_hash ) =>
        /\ current_clipboard_image_hash' = MD5(clipboard.image)
        /\ current_clipboard' = <<>>
        /\ lastCall'.op = "add_image"
        /\ lastCall'.data = clipboard.image
        /\ \/ history' = history
           \/ /\ history' = DequeAppend(history, history'[Len(history')])
              /\ IsImageEntry(history'[Len(history')])
              /\ history'[Len(history')].image_hash = MD5(clipboard.image) ]_vars

\* A tick took the image of a clipboard that also offers a text, while a text
\* was the last entry: the image is the new last entry and no text is remembered.
C22_Witness ==
  /\ IsTick(lastCall)
  /\ lastCall.op = "add_image"
  /\ lastCall.mutated
  /\ clipboard.text # <<>>
  /\ clipboard.image # ""
  /\ current_clipboard = <<>>
  /\ Len(history) >= 2
  /\ IsImageEntry(history[Len(history)])
  /\ IsTextEntry(history[Len(history) - 1])

\* The clipboard offers an image or a text that the watcher has not seen.
NewImageOffered ==
  clipboard.image # "" /\ MD5(clipboard.image) # current_clipboard_image_hash

NewTextOffered ==
  clipboard.text # current_clipboard /\ Strip(clipboard.text) # <<>>

\* C23: a tick whose image query or text query fails takes that query as
\* having found nothing: if each query of the tick failed or offered nothing
\* new, the history, the durable file, the image files and the remembered text
\* and hash are as before; and after every tick, whatever failed, the watcher
\* is still polling.
C23_FailedQueryIsNoContent ==
  [][ IsTick(lastCall') =>
        /\ monitoring'
        /\ ( /\ ~lastCall'.imageOk \/ ~NewImageOffered
             /\ ~lastCall'.pasteOk \/ ~NewTextOffered ) =>
             UNCHANGED <<history, configFile, imageFiles, current_clipboard,
                         current_clipboard_image_hash>> ]_vars

\* Both queries failed in a tick while the clipboard offered an unseen image
\* and an unseen text.
C23_Witness ==
  /\ IsTick(lastCall)
  /\ ~lastCall.imageOk
  /\ ~lastCall.pasteOk
  /\ NewImageOffered
  /\ NewTextOffered
  /\ monitoring

\* The remembered text is no text of blanks.
NoBlankRemembered == current_clipboard = <<>> \/ Strip(current_clipboard) # <<>>

\* A tick that appended a text entry appended the clipboard text as it is,
\* blanks at its ends included, and that text is not blank.
AppendsTextUnmodified ==
  (IsTick(lastCall') /\ lastCall'.op = "add_text" /\ lastCall'.mutated) =>
    /\ history' = DequeAppend(history, history'[Len(history')])
    /\ IsTextEntry(history'[Len(history')])
    /\ history'[Len(history')].text = clipboard.text
    /\ clipboard.text # <<>>
    /\ Strip(clipboard.text) # <<>>

\* C24 as stated: a text that is empty or blank is never appended and never
\* becomes the remembered text, in no step of the watcher, and every text
\* entry holds the clipboard text unmodified.
C24_BlankNeverRemembered ==
  [][NoBlankRemembered' /\ AppendsTextUnmodified]_vars

\* C24, amended: a text that is empty or blank is never appended, and no tick
\* makes it the remembered text (the initialisation of the watcher remembers
\* the clipboard text whatever it is); every text entry holds the clipboard
\* text unmodified.
C24_BlankNeverRememberedByTick ==
  [][ /\ AppendsTextUnmodified
      /\ (IsTick(lastCall') /\ current_clipboard' # current_clipboard) =>
           NoBlankRemembered' ]_vars

\* A tick appended and remembered a text with blanks at both ends.
C24_Witness ==
  /\ IsTick(lastCall)
  /\ lastCall.op = "add_text"
  /\ lastCall.mutated
  /\ history[Len(history)].text = Str_Padded
  /\ current_clipboard = Str_Padded

\* The guard is active: an insert now would be suppressed.
GuardActive == InsertBlocked(window_just_opened, now, window_open_time)

\* What an insert does to the view: one that wrote the clipboard closes it,
\* one that was suppressed or wrote nothing leaves it open; and an explicit
\* close closes it.
InsertAndCloseSteps ==
  /\ lastCall'.op = "insert" => (history_window /\ ~history_window')
  /\ lastCall'.op \in {"insert_blocked", "insert_none"} =>
       (history_window /\ history_window')
  /\ lastCall'.op \in {"close", "destroy"} => (history_window /\ ~history_window')

\* The view is opened by show_history_window alone, and is then in the state
\* with the guard active; it is closed by the steps in `closers` alone.
OpensAndCloses(closers) ==
  history_window' # history_window =>
    IF history_window'
      THEN lastCall'.op = "show" /\ GuardActive'
      ELSE lastCall'.op \in closers

\* C25: the view goes from closed to open with the guard active, to active,
\* to closed; an insert that wrote the clipboard closes it, a window close,
\* Escape or the Close button closes it, a suppressed or failed insert leaves
\* it open, and nothing else closes or opens it as long as the process runs
\* (the end of the process, by a restart or a stop, ends the view with it).
C25_ViewLifecycle ==
  [][ /\ InsertAndCloseSteps
      /\ OpensAndCloses({"insert", "close", "destroy", "start_load", "start_clear"}) ]_vars

\* With the guard over, an insert of the image entry failed because its file
\* is gone, and the view is still open.
C25_Witness ==
  /\ lastCall.op = "insert_none"
  /\ history_window
  /\ ~GuardActive
  /\ lastCall.index \in 0..(Len(filtered_history) - 1)
  /\ IsImageEntry(EntryAt(filtered_history, lastCall.index))
  /\ EntryAt(filtered_history, lastCall.index).image_path \notin imageFiles

\* show_history_window ran while the window was open.
IsReopen == lastCall'.op = "show" /\ history_window

\* A reopen keeps the window and the query and recomputes the list from the
\* history as it is now.
ReopenRefreshes ==
  IsReopen =>
    /\ history_window'
    /\ current_filter' = current_filter
    /\ filtered_history' = FilterList(history, current_filter)

\* C26 as stated: a reopen puts the view in the active state whenever it
\* happens, so that an insert right after it is not suppressed, and keeps the
\* query, only recomputing the list.
C26_ReopenActivates ==
  [][ReopenRefreshes /\ (IsReopen => ~GuardActive')]_vars

\* C26, amended: a reopen clears the guard flag and leaves the opening time
\* as it is, so that an insert right after it is suppressed exactly if less
\* than the guard window has passed since the window was opened; it keeps the
\* query, only recomputing the list.
C26_ReopenClearsFlagOnly ==
  [][ /\ ReopenRefreshes
      /\ IsReopen =>
           /\ ~window_just_opened'
           /\ window_open_time' = window_open_time
           /\ GuardActive' <=> (now - window_open_time) < GuardWindow ]_vars

\* The hotkey was pressed again before the flag thread woke up, with a query
\* typed and a text copied since: the flag is down, the guard still active,
\* and the list shows the new text.
C26_Witness ==
  /\ lastCall.op = "show"
  /\ history_window
  /\ ~window_just_opened
  /\ flag_timers # {}
  /\ GuardActive
  /\ current_filter = Str_C
  /\ filtered_history = <<history[Len(history)]>>
  /\ history[Len(history)].text = Str_C

\* C27: a paste keystroke is attempted only for an insert that has written its
\* payload to the clipboard: the paste thread is started by such an insert
\* alone, never by a suppressed or failed one; and the paste attempt, failed
\* or not, leaves the clipboard with the payload, the history, the durable
\* file and the window as they are.
C27_PasteOnlyAfterClipboardWrite ==
  [][ /\ (auto_paste' /\ ~auto_paste) =>
           /\ lastCall'.op = "insert"
           /\ clipboard' = [text |-> lastCall'.text, image |-> lastCall'.data]
      /\ lastCall'.op \in {"insert_blocked", "insert_none"} =>
           (auto_paste' = auto_paste /\ clipboard' = clipboard)
      /\ lastCall'.op = "paste" =>
           /\ auto_paste
           /\ UNCHANGED <<clipboard, history, configFile, imageFiles, history_window,
                          current_clipboard>> ]_vars

\* The keystroke failed after an insert of the image entry: the image is on
\* the clipboard and the history is whole.
C27_Witness ==
  /\ lastCall.op = "paste"
  /\ ~lastCall.filesOk
  /\ clipboard = [text |-> <<>>, image |-> "png1"]
  /\ ~history_window
  /\ Len(history) = 3

\* The steps that do not run on the Tk loop: the clear_window_flag and
\* auto_paste threads, and the listener thread of the hotkey library.
BackgroundOps == {"clear_flag", "paste", "hotkey_show", "hotkey_post"}

\* The state of the window: open or not, the guard flag and its time, the
\* shown list and the cursor.
WindowState ==
  <<history_window, window_just_opened, window_open_time, filtered_history,
    selected_index>>

\* C28: the state of the window (open or closed, guard flag and open time,
\* shown list, cursor) is changed only by steps of the foreground: a hotkey
\* seen by the listener thread only posts a request the foreground runs later,
\* with either hotkey library, and no background thread writes the guard flag.
C28_WindowStateForegroundOnly ==
  [][WindowState' # WindowState => lastCall'.op \notin BackgroundOps]_vars

\* The durable file is not what save_history writes: it cannot be opened or
\* parsed, its top level is not an object, its 'history' is not a list, or an
\* element of the list is not an object.
Unfit(file) ==
  \/ file.kind \in {"corrupt", "unreadable", "notdict", "nolist"}
  \/ /\ file.kind = "json"
     /\ \E i \in 1..Len(HistoryList(file)) : ~IsObject(HistoryList(file)[i])

\* C29: a start on a durable file that is corrupt, unreadable or not of the
\* expected shape completes with an empty history: nothing read from the
\* file before the fault is kept.
C29_UnfitFileStartsEmpty ==
  [][ /\ lastCall'.op \in {"start_load", "start_clear", "start_abort"}
      /\ Unfit(configFile)
      => /\ history' = <<>>
         /\ lastCall'.op # "start_abort" ]_vars

\* A call that changed the history and whose save_history failed.
SaveFailed(call) == call.mutated /\ call.save \in {"open_fail", "write_fail"}

\* The history after the step is the history before it with the change of
\* the call made: the new entry at the end, one entry less, or none.
MutationKept ==
  CASE lastCall'.op = "add_text" ->
         /\ Len(history') = (IF Len(history) < MaxHistory THEN Len(history) + 1 ELSE MaxHistory)
         /\ history'[Len(history')] = TextEntry(lastCall'.text, now)
    [] lastCall'.op = "add_image" ->
         /\ Len(history') = (IF Len(history) < MaxHistory THEN Len(history) + 1 ELSE MaxHistory)
         /\ Get(history'[Len(history')], "image_hash") = MD5(lastCall'.data)
    [] lastCall'.op = "delete" -> Len(history') = Len(history) - 1
    [] OTHER -> history' = <<>>

\* The durable file does not hold the history in memory.
FileStale == ~(configFile.kind = "json" /\ FileRecords(configFile) = history)

\* C30: when save_history fails during an append, a remove or a clear, the
\* call completes and the history in memory keeps the change (nothing is
\* rolled back); and the next save that succeeds on a file left behind brings
\* the list in the durable file back to the history in memory.
C30_FailedSaveKeepsMutation ==
  [][ /\ SaveFailed(lastCall') => MutationKept
      /\ (FileStale /\ lastCall'.mutated /\ lastCall'.save = "ok")
           => (configFile'.kind = "json" /\ configFile'.doc.history = history') ]_vars

\* A remove whose save could not open the file: the entry is gone from the
\* history in memory and the file still lists it.
C30_Witness ==
  /\ lastCall.op = "delete" /\ SaveFailed(lastCall) /\ lastCall.save = "open_fail"
  /\ Len(history) = lastCall.before - 1
  /\ configFile.kind = "json" /\ Len(FileRecords(configFile)) = lastCall.before

\* Two entries are of the same kind and hold the same text or the same image.
ValueEqual(e1, e2) ==
  /\ Get(e1, "type") = Get(e2, "type")
  /\ \/ Get(e1, "type") = "text" /\ GetStr(e1, "text") = GetStr(e2, "text")
     \/ Get(e1, "type") = "image" /\ Get(e1, "image_hash") = Get(e2, "image_hash")

NoAdjacentEqual(h) == \A i \in 1..(Len(h) - 1) : ~ValueEqual(h[i], h[i + 1])

\* C33 as stated: in every reachable state, after any appends, removes of the
\* selected entry and clears, no two adjacent entries of the history are of
\* the same kind with the same text or the same image hash.
C33_NoAdjacentEqual == NoAdjacentEqual(history)

\* C33, amended: no append, clear or start puts two value-equal entries next
\* to each other; only the removal of the selected entry can, when the
\* entries on both sides of the removed one are equal.
C33_NoAdjacentEqualButByRemoval ==
  [][ (NoAdjacentEqual(history) /\ ~NoAdjacentEqual(history'))
        => /\ lastCall'.op = "delete"
           /\ Len(history') = Len(history) - 1 ]_vars

\* An accepted append of a text equal to an older entry that is not the last:
\* the oldest and the newest entry are equal and no neighbours are.
C33_Witness ==
  /\ lastCall.op = "add_text" /\ lastCall.mutated
  /\ Len(history) = MaxHistory
  /\ ValueEqual(history[1], history[Len(history)])
  /\ NoAdjacentEqual(history)

\* The clipboard holds what the last insert wrote: the user has copied
\* nothing since.
HoldsInserted == clip_origin = "insert"

\* C31: inserting an entry adds nothing to the history: as long as the user
\* copies nothing after an insert of a text or an image entry, no round of
\* the watcher appends (the watcher does not take the inserted content for
\* new).
C31_InsertAddsNothing ==
  [][HoldsInserted /\ IsTick(lastCall') => history' = history]_vars

\* While the watcher runs, the user has put an image on a clipboard that
\* held a text, the last the watcher saw, and the image is still there.
ImageCopiedOverText == clip_origin = "user_over_text" /\ clipboard.image # ""

\* The last entry of the history is the image on the clipboard.
LastIsClipboardImage ==
  /\ clipboard.image # ""
  /\ history # <<>>
  /\ Get(history[Len(history)], "type") = "image"
  /\ Get(history[Len(history)], "image_hash") = MD5(clipboard.image)

\* C32: no image the user copies is missed: when the clipboard held a text
\* (copied by the user or written by the insert of a text entry) and the user
\* puts an image on it that stays there, the watcher, running fairly and
\* storing images without failure, eventually appends it, so that the last
\* entry of the history is an image entry with its hash.
C32_ImageAfterTextIsAppended ==
  ImageCopiedOverText ~> (LastIsClipboardImage \/ ~ImageCopiedOverText)

====
